---- MODULE Spec2Model ----
(***************************************************************************)
(* Model of libpressio's metrics plugins (src/plugins/metrics/error_stat.cc):*)
(*   - external_metric_plugin: writes two temporary files, runs an external *)
(*     program through fork/exec with stdout and stderr on pipes, and parses *)
(*     the "external:api=1" text protocol into a pressio_options result set; *)
(*   - compute_metrics: the one-pass error statistics.                      *)
(*                                                                         *)
(* Text is a sequence of symbols.  A symbol is one character ("=", "1",     *)
(* ".", "\n", " ", ...) or a run of characters that contains no '=', no     *)
(* digit, no sign, no '.', no white space (such as "external:api" or        *)
(* "foo"); positions count symbols.                                         *)
(***************************************************************************)
EXTENDS Integers, Sequences, FiniteSets, TLC

(***************************************************************************)
(* std::string primitives                                                  *)
(***************************************************************************)

\* std::string::npos; npos + 1 wraps to 0 in size_t, as -1 + 1 does here
NPOS == 0 - 1

Min(a, b) == IF a < b THEN a ELSE b

\* s.find(c): 0-based position of the first c in s, or npos
find(s, c) ==
  IF \E i \in 1..Len(s) : s[i] = c
  THEN (CHOOSE i \in 1..Len(s) : s[i] = c /\ \A j \in 1..(i - 1) : s[j] # c) - 1
  ELSE NPOS

\* s.substr(pos, count) for pos <= size; count = npos means "to the end"
substr(s, pos, count) ==
  LET last == IF count = NPOS THEN Len(s) ELSE Min(Len(s), pos + count)
  IN  SubSeq(s, pos + 1, last)

\* std::getline(stream, line): fails when nothing is left; otherwise extracts
\* up to and excluding the next newline, which is consumed
getline(stream) ==
  IF stream = <<>>
  THEN [ok |-> FALSE, line |-> <<>>, rest |-> <<>>]
  ELSE LET nl == find(stream, "\n")
       IN  IF nl = NPOS
           THEN [ok |-> TRUE, line |-> stream, rest |-> <<>>]
           ELSE [ok |-> TRUE, line |-> substr(stream, 0, nl),
                 rest |-> substr(stream, nl + 1, NPOS)]

Digits == {"0", "1", "2", "3", "4", "5", "6", "7", "8", "9"}

DigitVal(c) ==
  CASE c = "0" -> 0 [] c = "1" -> 1 [] c = "2" -> 2 [] c = "3" -> 3
    [] c = "4" -> 4 [] c = "5" -> 5 [] c = "6" -> 6 [] c = "7" -> 7
    [] c = "8" -> 8 [] c = "9" -> 9

isspace(c) == c \in {" ", "\n", "\t"}

RECURSIVE SkipSpace(_)
SkipSpace(s) ==
  IF s # <<>> /\ isspace(Head(s)) THEN SkipSpace(Tail(s)) ELSE s

RECURSIVE DigitRun(_)
\* number of leading digits of s
DigitRun(s) ==
  IF s # <<>> /\ Head(s) \in Digits THEN 1 + DigitRun(Tail(s)) ELSE 0

RECURSIVE DecimalValue(_, _)
DecimalValue(s, acc) ==
  IF s = <<>> THEN acc ELSE DecimalValue(Tail(s), 10 * acc + DigitVal(Head(s)))

\* std::stoull(str): skips white space, takes an optional sign and the longest
\* run of digits, ignores what follows; throws when there is no digit.  A
\* negated value stands for its two's complement (never 1 for the inputs used).
stoull(str) ==
  LET t == SkipSpace(str)
      signed == t # <<>> /\ Head(t) \in {"+", "-"}
      u == IF signed THEN Tail(t) ELSE t
      n == DigitRun(u)
      v == DecimalValue(SubSeq(u, 1, n), 0)
  IN  IF n = 0
      THEN [throws |-> TRUE, val |-> 0]
      ELSE [throws |-> FALSE,
            val |-> IF signed /\ Head(t) = "-" THEN 0 - v ELSE v]

RECURSIVE Canonical(_, _)
\* a decimal num / 10^exp without trailing fractional zeros
Canonical(num, exp) ==
  IF exp > 0 /\ num % 10 = 0 THEN Canonical(num \div 10, exp - 1)
  ELSE [num |-> num, exp |-> exp]

\* std::stod(str) on decimal notation: white space, optional sign, digits with
\* an optional '.', ignoring what follows; throws when there is no digit.  The
\* double is held exactly as num / 10^exp.
stod(str) ==
  LET t == SkipSpace(str)
      signed == t # <<>> /\ Head(t) \in {"+", "-"}
      u == IF signed THEN Tail(t) ELSE t
      n1 == DigitRun(u)
      afterInt == SubSeq(u, n1 + 1, Len(u))
      dot == afterInt # <<>> /\ Head(afterInt) = "."
      n2 == IF dot THEN DigitRun(Tail(afterInt)) ELSE 0
      mant == DecimalValue(SubSeq(u, 1, n1) \o
                           (IF dot THEN SubSeq(afterInt, 2, n2 + 1) ELSE <<>>), 0)
      c == Canonical(mant, n2)
  IN  IF n1 + n2 = 0
      THEN [throws |-> TRUE, val |-> [num |-> 0, exp |-> 0]]
      ELSE [throws |-> FALSE,
            val |-> IF signed /\ Head(t) = "-"
                    THEN [num |-> 0 - c.num, exp |-> c.exp] ELSE c]

(***************************************************************************)
(* pressio_options: the named option store that holds the results           *)
(***************************************************************************)

\* a default-constructed pressio_options, also what clear() leaves
OptEmpty == [k \in {} |-> 0]

OptClear(opts) == OptEmpty

\* opts.set(key, value): insert or overwrite
OptSet(opts, key, value) ==
  [k \in (DOMAIN opts) \cup {key} |-> IF k = key THEN value ELSE opts[k]]

\* opts.set_type(key, type): a typed entry without a value
OptSetType(opts, key, type, blank) ==
  OptSet(opts, key, [type |-> type, has |-> FALSE, v |-> blank])

OptInt(v) == [type |-> "int32", has |-> TRUE, v |-> v]

OptDouble(v) == [type |-> "double", has |-> TRUE, v |-> v]

OptString(v) == [type |-> "charptr", has |-> TRUE, v |-> v]

K_error_code == <<"external:error_code">>

K_return_code == <<"external:return_code">>

K_stderr == <<"external:stderr">>

\* "external:results:" + name
K_result(name) == <<"external:results:">> \o name

FixedKeys == {K_error_code, K_return_code, K_stderr}

(***************************************************************************)
(* extern_proc_error_codes and extern_proc_results                         *)
(***************************************************************************)

success == 0

pipe_error == 1

fork_error == 2

exec_error == 3

format_error == 4

\* a default-constructed extern_proc_results
extern_proc_results ==
  [proc_stdout |-> <<>>, proc_stderr |-> <<>>, return_code |-> 0,
   error_code |-> success]

(***************************************************************************)
(* the result parser of external_metric_plugin                             *)
(***************************************************************************)

\* api_version_number: the version parsed from the first line of the stream;
\* 0 reports an error; stoull may throw
api_version_number(stdout_stream) ==
  LET g == getline(stdout_stream)
      version_line == g.line
      eq_pos == find(version_line, "=") + 1
      n == stoull(substr(version_line, eq_pos, NPOS))
  IN  IF substr(version_line, 0, eq_pos) = <<"external:api">>
      THEN [throws |-> FALSE, val |-> 0, rest |-> g.rest]
      ELSE [throws |-> n.throws, val |-> n.val, rest |-> g.rest]

RECURSIVE parse_v1_lines(_, _)
\* the for loop of parse_v1: one result entry per line until the stream ends
\* or stod throws
parse_v1_lines(stdout_stream, res) ==
  LET g == getline(stdout_stream)
      line == g.line
      equal_pos == find(line, "=")
      name == K_result(substr(line, 0, equal_pos))
      value_s == substr(line, equal_pos + 1, NPOS)
      value == stod(value_s)
  IN  IF ~g.ok THEN [throws |-> FALSE, results |-> res]
      ELSE IF value.throws THEN [throws |-> TRUE, results |-> res]
      ELSE parse_v1_lines(g.rest, OptSet(res, name, OptDouble(value.val)))

\* parse_v1 without its results.clear()
parse_v1_keeps_entries(stdout_stream, input, res) ==
  LET r == parse_v1_lines(stdout_stream, res)
  IN  IF r.throws THEN r
      ELSE [throws |-> FALSE,
            results |->
              OptSet(OptSet(OptSet(r.results,
                K_stderr, OptString(input.proc_stderr)),
                K_return_code, OptInt(input.return_code)),
                K_error_code, OptInt(input.return_code))]

\* parse_v1 that reports success as the error code, not the exit status
parse_v1_error_code_success(stdout_stream, input, res) ==
  LET r == parse_v1_lines(stdout_stream, OptClear(res))
  IN  IF r.throws THEN r
      ELSE [throws |-> FALSE,
            results |->
              OptSet(OptSet(OptSet(r.results,
                K_stderr, OptString(input.proc_stderr)),
                K_return_code, OptInt(input.return_code)),
                K_error_code, OptInt(success))]

\* parse_v1: clears the results, adds the entries of the lines and then the
\* three fixed fields; an exception leaves what was set so far
parse_v1(stdout_stream, input, res) ==
  LET r == parse_v1_lines(stdout_stream, OptClear(res))
  IN  IF r.throws THEN r
      ELSE [throws |-> FALSE,
            results |->
              OptSet(OptSet(OptSet(r.results,
                K_stderr, OptString(input.proc_stderr)),
                K_return_code, OptInt(input.return_code)),
                K_error_code, OptInt(input.return_code))]

\* the error information set without results.clear()
format_error_results_unclear(res) ==
  OptSet(OptSet(OptSet(res,
    K_error_code, OptInt(format_error)),
    K_return_code, OptInt(0)),
    K_stderr, OptString(<<>>))

\* the tail of parse_result: the error information
format_error_results(res) ==
  OptSet(OptSet(OptSet(OptClear(res),
    K_error_code, OptInt(format_error)),
    K_return_code, OptInt(0)),
    K_stderr, OptString(<<>>))

\* parse_result: the results member after parsing the captured stdout
parse_result(res, proc_results) ==
  LET api_version == api_version_number(proc_results.proc_stdout)
      v1 == parse_v1(api_version.rest, proc_results, res)
  IN  IF api_version.throws THEN format_error_results(res)
      ELSE IF api_version.val = 1
           THEN (IF v1.throws THEN format_error_results(v1.results)
                 ELSE v1.results)
           ELSE format_error_results(res)

(***************************************************************************)
(* State                                                                   *)
(***************************************************************************)

VARIABLES
  command,      \* external_metric_plugin::command
  io_format,    \* external_metric_plugin::io_format
  io_module,    \* external_metric_plugin::io_module: the bound plugin, if any
  input_data,   \* external_metric_plugin::input_data
  results,      \* external_metric_plugin::results
  pc,           \* where the caller of the plugin is
  files,        \* the temporary files that exist in the working directory
  tmp_fds,      \* descriptors of temporary files the process holds open
  pipe_fds,     \* pipe descriptors the process holds open
  proc,         \* run_external: result, what run_command returned
  stdout_stream, \* run_command: what was read from the stdout pipe
  stderr_stream, \* run_command: what was read from the stderr pipe
  status,       \* run_command: status, as waitpid left it
  child,        \* the child process: none, running, zombie or reaped
  child_out,    \* what the child has still to write to its stdout
  child_err,    \* what the child has still to write to its stderr
  child_end,    \* how the child terminates once it has written everything
  pipe_out,     \* content of the stdout pipe
  pipe_err,     \* content of the stderr pipe
  end_args,     \* end_decompress: the arguments of the call in progress
  full_command, \* run_external: full_command, what the child is started with
  file_data,    \* what each temporary file holds
  cloned,       \* the plugin clone() returned, if any
  parse_files,  \* run_external: the temporary files that existed when
                \* parse_result was last called
  stat_input_data, \* error_stat_plugin::input_data
  stat_output,  \* the reconstructed dataset last given to error_stat_plugin
  stat_original, \* the first argument last given to its end_decompress
  stat_cloned,  \* the plugin error_stat_plugin::clone() returned, if any
  err_metrics,  \* error_stat_plugin::err_metrics
  csv,          \* a csv_io of its own: path, headers and skip_rows
  csv_rc,       \* what its last write returned
  disk          \* the files its paths may name, with what they hold

vars ==
  <<command, io_format, io_module, input_data, results, pc, files, tmp_fds,
    pipe_fds, proc, stdout_stream, stderr_stream, status, child, child_out,
    child_err, child_end, pipe_out, pipe_err, end_args, full_command,
    file_data, cloned, parse_files, stat_input_data, stat_output,
    stat_original,
    stat_cloned, err_metrics, csv, csv_rc, disk>>

stat_vars ==
  <<stat_input_data, stat_output, stat_original, stat_cloned, err_metrics>>

runner_vars ==
  <<command, io_format, io_module, input_data, results, pc, files, tmp_fds,
    pipe_fds, proc, stdout_stream, stderr_stream, status, child, child_out,
    child_err, child_end, pipe_out, pipe_err, end_args, full_command,
    file_data, cloned, parse_files>>

csv_vars == <<csv, csv_rc, disk>>

\* the locals of the end_decompress in progress
call_vars == <<end_args, full_command, file_data>>

plugin_vars == <<command, io_format, io_module, input_data, results>>

child_vars == <<child, child_out, child_err, child_end, pipe_out, pipe_err>>

(***************************************************************************)
(* Bounds and inputs                                                       *)
(***************************************************************************)

\* capacity of a pipe, in symbols
PipeCap == 3

\* descriptors the process may hold open beyond the standard ones
MaxOpenFds == 8

\* read(fd, buffer, 2048)
BufferSize == 2048

Exited(code) == [kind |-> "exited", code |-> code]

Signaled(sig) == [kind |-> "signaled", code |-> sig]

WIFEXITED(st) == st.kind = "exited"

WEXITSTATUS(st) == st.code

ApiLine(v) == <<"external:api", "=", v, "\n">>

FooLine == <<"foo", "=", "1", ".", "5", "\n">>

\* what may follow the first line
Bodies ==
  { <<>>,
    FooLine,
    FooLine \o <<"bar", "=", "2", "\n">>,
    <<"foo", "=", "1", "\n", "foo", "=", "2", "\n">>,
    FooLine \o <<"bad", "\n">>,
    FooLine \o <<"\n">>,
    <<"foo", "=", "\n">> }

\* first lines that are not the api line of version 1
OtherFirstLines ==
  { ApiLine("2"), <<"external:api", "=", "1", ".", "5", "\n">>,
    <<"foo", "=", "1", "\n">>, <<"1", "\n">>, <<"bad", "\n">> }

Stdouts ==
  {<<>>} \cup {ApiLine("1") \o b : b \in Bodies}
         \cup {f \o b : f \in OtherFirstLines, b \in {<<>>, FooLine}}

\* a stderr text of n symbols
Noise(n) == [i \in 1..n |-> "x"]

\* programs the command may stand for: what they write and how they end
Programs ==
  {[out |-> o, err |-> <<>>, end |-> Exited(0)] : o \in Stdouts}
  \cup {[out |-> o, err |-> Noise(1), end |-> Exited(3)] :
          o \in {<<>>, ApiLine("1") \o FooLine}}
  \cup {[out |-> ApiLine("1") \o FooLine, err |-> Noise(PipeCap + 1),
          end |-> Exited(0)]}
  \cup {[out |-> ApiLine("1") \o FooLine, err |-> Noise(1), end |-> Signaled(9)]}

Commands == { <<"prog">>, <<"1">>, <<"1", "x">> }

RegisteredFormats == {"posix", "csv"}

Formats == RegisteredFormats \cup {"bogus"}

\* an option key a pressio_options may hold or lack
Key(values) ==
  {[has |-> FALSE, v |-> <<>>]} \cup {[has |-> TRUE, v |-> x] : x \in values}

EmptyData == [dtype |-> "byte", dims |-> <<>>, data |-> <<>>]

FloatData == [dtype |-> "float", dims |-> <<2, 3>>, data |-> <<1, 2, 3, 4, 5, 6>>]

Datasets == { FloatData }

\* pressio_data::clone(d), and the copy of a pressio_data: a dataset of its
\* own with the type, the shape and the elements of d
pressio_data_clone(d) == d

\* the arguments of an end_decompress: the original (which the plugins
\* ignore), the reconstructed dataset and the status of the decompression
Args(original, output, st) ==
  [original |-> original, output |-> output, status |-> st]

NoArgs == Args(EmptyData, EmptyData, 0)

\* A smaller world in which the caller is visible: it has datasets of several
\* types and shapes, changes or frees its original between begin and end,
\* and clones the plugin.
IntData == [dtype |-> "int32", dims |-> <<12>>, data |-> [i \in 1..12 |-> 0]]

\* FloatData after the caller has overwritten its first element
MutatedData == [FloatData EXCEPT !.data[1] = 9]

\* what is left of a dataset the caller has freed
FreedData == [dtype |-> "freed", dims |-> <<>>, data |-> <<>>]

SessionDatasets == { FloatData, IntData }

SessionEndArgs == { Args(MutatedData, FloatData, 1), Args(FreedData, IntData, 0) }

SessionCommands == { <<"prog">> }

SessionFormats == RegisteredFormats

SessionPrograms ==
  { [out |-> ApiLine("1") \o FooLine, err |-> <<>>, end |-> Exited(0)],
    [out |-> ApiLine("1") \o FooLine \o <<"bar", "=", "2", "\n">>,
     err |-> Noise(1), end |-> Exited(3)] }

\* paths at which a file can be opened for writing
WritablePaths == { "a.csv", "b.csv" }

\* what a csv_io of its own may be configured with and given to write
CsvPaths == WritablePaths \cup { "nodir/c.csv" }

CsvHeaders == { <<>>, <<"a", "b">>, <<"a", "b", "c">> }

CsvSkipRows == { 0, 1 }

CsvDatasets ==
  { EmptyData, FloatData,
    [dtype |-> "float", dims |-> <<2>>, data |-> <<1, 2>>],
    [dtype |-> "uint8", dims |-> <<1, 2>>, data |-> <<7, 8>>],
    [dtype |-> "int32", dims |-> <<2, 1, 1>>, data |-> <<1, 2>>] }

NullIo == [bound |-> FALSE, name |-> "", path |-> <<>>]

(***************************************************************************)
(* build_command and the child's view of the command line                  *)
(***************************************************************************)

DigitChar(d) == CHOOSE c \in Digits : DigitVal(c) = d

RECURSIVE DecimalText(_)
\* operator<< of an unsigned integer
DecimalText(n) ==
  IF n < 10 THEN <<DigitChar(n)>>
  ELSE DecimalText(n \div 10) \o <<DigitChar(n % 10)>>

dtype_name(dtype) ==
  CASE dtype = "float"  -> <<"float">>
    [] dtype = "double" -> <<"double">>
    [] dtype = "int8"   -> <<"int", "8">>
    [] dtype = "int16"  -> <<"int", "1", "6">>
    [] dtype = "int32"  -> <<"int", "3", "2">>
    [] dtype = "int64"  -> <<"int", "6", "4">>
    [] dtype = "uint8"  -> <<"uint", "8">>
    [] dtype = "uint16" -> <<"uint", "1", "6">>
    [] dtype = "uint32" -> <<"uint", "3", "2">>
    [] dtype = "uint64" -> <<"uint", "6", "4">>
    [] dtype = "byte"   -> <<"byte">>

RECURSIVE dim_flags(_)
dim_flags(dims) ==
  IF dims = <<>> THEN <<>>
  ELSE <<" ", "--dim", " ">> \o DecimalText(Head(dims)) \o dim_flags(Tail(dims))

\* build_command that emits the dimensions last to first
build_command_reversed_dims(cmd, input_path, decomp_path, data) ==
  cmd \o <<" ", "--api", " ", "1">>
      \o <<" ", "--input", " ">> \o input_path
      \o <<" ", "--decompressed", " ">> \o decomp_path
      \o <<" ", "--type", " ">> \o dtype_name(data.dtype)
      \o dim_flags([i \in 1..Len(data.dims) |->
                      data.dims[Len(data.dims) + 1 - i]])

build_command(cmd, input_path, decomp_path, data) ==
  cmd \o <<" ", "--api", " ", "1">>
      \o <<" ", "--input", " ">> \o input_path
      \o <<" ", "--decompressed", " ">> \o decomp_path
      \o <<" ", "--type", " ">> \o dtype_name(data.dtype)
      \o dim_flags(data.dims)

RECURSIVE WordLen(_)
WordLen(s) == IF s = <<>> \/ isspace(Head(s)) THEN 0 ELSE 1 + WordLen(Tail(s))

\* args.front(): the first white-space separated word of the command line
args_front(command_line) ==
  LET t == SkipSpace(command_line) IN SubSeq(t, 1, WordLen(t))

\* the child when execvp fails: printf of args.front(), perror, exit(-1)
exec_failed(command_line) ==
  [out |-> args_front(command_line) \o <<"\n">>,
   err |-> <<" failed to exec process: No such file or directory", "\n">>,
   end |-> Exited(255)]

(***************************************************************************)
(* run_external up to the point where run_command forks                     *)
(***************************************************************************)

input_fd_name == <<".pressioin", "XXXXXX">>

output_fd_name == <<".pressioout", "XXXXXX">>

\* can the process open n more descriptors when it holds `held`
CanOpen(held, n) == held + n <= MaxOpenFds

\* mkstemp(input_fd_name) succeeded
input_fd_ok == CanOpen(pipe_fds, 1)

\* mkstemp(output_fd_name) succeeded
decompressed_fd_ok == CanOpen(pipe_fds + (IF input_fd_ok THEN 1 ELSE 0), 1)

\* temporary-file descriptors held after both mkstemp calls
tmp_fds_opened ==
  (IF input_fd_ok THEN 1 ELSE 0) + (IF decompressed_fd_ok THEN 1 ELSE 0)

\* the files mkstemp and the two io_module->write calls leave
tmp_files_written ==
  (IF input_fd_ok THEN {input_fd_name} ELSE {})
    \cup (IF decompressed_fd_ok THEN {output_fd_name} ELSE {})

\* a file as mkstemp creates it, or as an ofstream truncates it
EmptyFile == [format |-> "", header |-> <<>>, values |-> <<>>, rows |-> 0]

\* what the posix backend writes: the elements of the dataset as they are
posix_write(data) ==
  [format |-> "posix", header |-> <<>>, values |-> data.data, rows |-> 0]

\* csv_io::invalid_dimensions
invalid_dimensions == 1

\* csv_io::invalid_headers
invalid_headers == 2

\* csv_io::bad_path
bad_path == 3

\* std::ofstream outfile{path}; if(not outfile): the stream is open
ofstream_ok(path) == path \in WritablePaths

\* the files fs, the one at path being f
file_put(fs, path, f) ==
  [n \in DOMAIN fs \cup {path} |-> IF n = path THEN f ELSE fs[n]]

\* csv_io::write_impl(data) of a csv_io with this path and these headers, in a
\* directory holding the files fs: what it returns and the files it leaves.
\* Opening the ofstream creates the file or truncates it; the checks of the
\* dimensions and of the headers come after that.
write_impl(path, headers, fs, data) ==
  IF ~ofstream_ok(path) THEN [rc |-> bad_path, fs |-> fs]
  ELSE
    LET opened == file_put(fs, path, EmptyFile) IN
    IF Len(data.dims) # 2 THEN [rc |-> invalid_dimensions, fs |-> opened]
    ELSE IF headers # <<>> /\ data.dims[2] # Len(headers)
    THEN [rc |-> invalid_headers, fs |-> opened]
    ELSE [rc |-> 0,
          fs |-> file_put(fs, path,
                   [format |-> "csv", header |-> headers,
                    values |-> data.data, rows |-> data.dims[1]])]

\* csv_io::write_impl with no headers configured, on a file mkstemp has
\* created: what the file holds afterwards
csv_write_impl(data) ==
  write_impl("a.csv", <<>>, file_put(<<>>, "a.csv", EmptyFile), data).fs["a.csv"]

\* io_module->write(data) on the file the module's path names
io_write(module, data) ==
  IF module.name = "csv" THEN csv_write_impl(data) ELSE posix_write(data)

\* end_decompress that hands its first argument to run_external
run_external_original_from_argument(captured, args) == args.original

\* end_decompress: run_external(input_data, *output), the dataset that is
\* written as the original
run_external_original(captured, args) == captured

\* the content the two io_module->write calls give the temporary files
tmp_file_data(module, original, decompressed) ==
  [n \in tmp_files_written |->
     IF n = input_fd_name THEN io_write(module, original)
     ELSE io_write(module, decompressed)]

\* the files fs with their content, those of new replacing those of old
file_contents(fs, old, new) ==
  [n \in fs |-> IF n \in DOMAIN new THEN new[n]
                ELSE IF n \in DOMAIN old THEN old[n] ELSE EmptyFile]

\* pipe(stdout_pipe_fd) succeeded
stdout_pipe_ok == CanOpen(pipe_fds + tmp_fds_opened, 2)

\* pipe(stderr_pipe_fd) succeeded
stderr_pipe_ok == CanOpen(pipe_fds + tmp_fds_opened + 2, 2)

\* library.get_io(name)
get_io(name) ==
  IF name \in RegisteredFormats
  THEN [bound |-> TRUE, name |-> name, path |-> <<>>]
  ELSE NullIo

\* unlink(name) in a directory holding the files fs
unlink(fs, name) == fs \ {name}

\* run_external that unlinks the input file only
run_external_finish_one_unlink(result, existing) ==
  /\ proc' = result
  /\ results' = parse_result(results, result)
  /\ parse_files' = existing
  /\ tmp_fds' = 0
  /\ files' = unlink(unlink(existing, input_fd_name), input_fd_name)
  /\ file_data' = file_contents(files', file_data, <<>>)
  /\ end_args' = NoArgs
  /\ full_command' = <<>>
  /\ pc' = "idle"
  /\ stdout_stream' = <<>>
  /\ stderr_stream' = <<>>
  /\ status' = Exited(0)
  /\ child' = "none"
  /\ child_out' = <<>>
  /\ child_err' = <<>>
  /\ child_end' = Exited(0)
  /\ pipe_out' = <<>>
  /\ pipe_err' = <<>>

\* run_external that unlinks both temporary files, then calls parse_result
run_external_finish_unlink_first(result, existing) ==
  /\ proc' = result
  /\ files' = unlink(unlink(existing, input_fd_name), output_fd_name)
  /\ parse_files' = files'
  /\ results' = parse_result(results, result)
  /\ tmp_fds' = 0
  /\ file_data' = file_contents(files', file_data, <<>>)
  /\ end_args' = NoArgs
  /\ full_command' = <<>>
  /\ pc' = "idle"
  /\ stdout_stream' = <<>>
  /\ stderr_stream' = <<>>
  /\ status' = Exited(0)
  /\ child' = "none"
  /\ child_out' = <<>>
  /\ child_err' = <<>>
  /\ child_end' = Exited(0)
  /\ pipe_out' = <<>>
  /\ pipe_err' = <<>>

\* the rest of run_external once run_command has returned `result`:
\* parse_result, then close and unlink of both temporary files
run_external_finish(result, existing) ==
  /\ proc' = result
  /\ results' = parse_result(results, result)
  /\ parse_files' = existing
  /\ tmp_fds' = 0
  /\ files' = unlink(unlink(existing, input_fd_name), output_fd_name)
  /\ file_data' = file_contents(files', file_data, <<>>)
  /\ end_args' = NoArgs
  /\ full_command' = <<>>
  /\ pc' = "idle"
  /\ stdout_stream' = <<>>
  /\ stderr_stream' = <<>>
  /\ status' = Exited(0)
  /\ child' = "none"
  /\ child_out' = <<>>
  /\ child_err' = <<>>
  /\ child_end' = Exited(0)
  /\ pipe_out' = <<>>
  /\ pipe_err' = <<>>

(***************************************************************************)
(* compute_metrics: the one-pass error statistics                           *)
(*                                                                         *)
(* Element types keep their signedness and the order of their widths, but   *)
(* the widths are scaled down so that every value, square and sum stays     *)
(* within the 32-bit integers of TLC.  A type narrower than int is         *)
(* promoted to int before arithmetic; int and wider types wrap at their own *)
(* width.  As with 8, 16 and 32 bits, int holds the square of every value   *)
(* of the 8-bit types and of the signed 16-bit type, but not of every value *)
(* of the unsigned 16-bit type.  Every double of the computation is an integer or a quotient of   *)
(* integers here, held exactly, or an infinity or NaN for the float types;  *)
(* log10 (psnr) is left out.                                               *)
(***************************************************************************)

\* width of the 8-bit types
CharBits == 4

\* width of the 16-bit types
ShortBits == 5

\* width of int and of the 32-bit types
IntBits == 10

\* width of the 64-bit types
LongBits == 11

IntegerDtypes ==
  {"int8", "int16", "int32", "int64", "uint8", "uint16", "uint32", "uint64"}

FloatDtypes == {"float", "double"}

\* the C++ element type pressio_data_for_each selects for a dtype
value_type(dtype) ==
  CASE dtype = "int8"   -> [signed |-> TRUE,  bits |-> CharBits,  float |-> FALSE]
    [] dtype = "int16"  -> [signed |-> TRUE,  bits |-> ShortBits, float |-> FALSE]
    [] dtype = "int32"  -> [signed |-> TRUE,  bits |-> IntBits,   float |-> FALSE]
    [] dtype = "int64"  -> [signed |-> TRUE,  bits |-> LongBits,  float |-> FALSE]
    [] dtype = "uint8"  -> [signed |-> FALSE, bits |-> CharBits,  float |-> FALSE]
    [] dtype = "uint16" -> [signed |-> FALSE, bits |-> ShortBits, float |-> FALSE]
    [] dtype = "uint32" -> [signed |-> FALSE, bits |-> IntBits,   float |-> FALSE]
    [] dtype = "uint64" -> [signed |-> FALSE, bits |-> LongBits,  float |-> FALSE]
    [] dtype = "float"  -> [signed |-> TRUE,  bits |-> IntBits,   float |-> TRUE]
    [] dtype = "double" -> [signed |-> TRUE,  bits |-> LongBits,  float |-> TRUE]

\* the type of an arithmetic expression whose operands have type t
Promoted(t) ==
  IF ~t.float /\ t.bits < IntBits
  THEN [signed |-> TRUE, bits |-> IntBits, float |-> FALSE] ELSE t

TypeMin(t) == IF t.signed THEN 0 - 2 ^ (t.bits - 1) ELSE 0

TypeMax(t) == IF t.signed THEN 2 ^ (t.bits - 1) - 1 ELSE 2 ^ t.bits - 1

\* the value of type t that x is reduced to, modulo 2^bits
Wrap(x, t) ==
  LET r == x % (2 ^ t.bits)
  IN  IF t.signed /\ r > TypeMax(t) THEN r - 2 ^ t.bits ELSE r

\* A floating-point value is an integer (the finite values of the model, all
\* exact in a float), or one of +infinity, -infinity and NaN, which stand
\* beyond every finite value the computation produces.
Infinity == 2 ^ 30

NaN == Infinity + 1

isinf(x) == x = Infinity \/ x = 0 - Infinity

\* x < y on floating-point values: false when either is NaN
less(x, y) == x # NaN /\ y # NaN /\ x < y

\* -x
dneg(x) == IF x = NaN THEN NaN ELSE 0 - x

\* x + y
dadd(x, y) ==
  IF x = NaN \/ y = NaN THEN NaN
  ELSE IF isinf(x) THEN (IF isinf(y) /\ y # x THEN NaN ELSE x)
  ELSE IF isinf(y) THEN y
  ELSE x + y

\* x - y
dsub(x, y) == dadd(x, dneg(y))

\* x * y
dmul(x, y) ==
  IF x = NaN \/ y = NaN THEN NaN
  ELSE IF isinf(x) \/ isinf(y)
       THEN (IF x = 0 \/ y = 0 THEN NaN
             ELSE IF (x > 0) = (y > 0) THEN Infinity ELSE 0 - Infinity)
  ELSE x * y

\* std::abs on a double
fabs(x) == IF x = NaN THEN NaN ELSE IF x < 0 THEN 0 - x ELSE x

\* std::min(a, b): (b < a) ? b : a
std_min(a, b) == IF less(b, a) THEN b ELSE a

\* std::max(a, b): (a < b) ? b : a
std_max(a, b) == IF less(a, b) THEN b ELSE a

\* x - y on two elements, in their promoted type
elem_sub(t, x, y) ==
  IF t.float THEN dsub(x, y) ELSE Wrap(x - y, Promoted(t))

\* x * y on two elements, in their promoted type
elem_mul(t, x, y) ==
  IF t.float THEN dmul(x, y) ELSE Wrap(x * y, Promoted(t))

\* metrics_begin that starts error_max from the first value, not from the
\* first difference
metrics_begin_from_value(t, a, b) ==
  LET diff_min == elem_sub(t, a[1], b[1])
  IN  [sum_of_squared_error |-> 0,
       sum_of_difference |-> 0,
       sum_of_error |-> 0,
       sum_of_values_squared |-> 0,
       sum |-> 0,
       num_elements |-> 0,
       value_min |-> a[1],
       value_max |-> a[1],
       diff_min |-> diff_min,
       diff_max |-> diff_min,
       error_min |-> fabs(dsub(a[1], b[1])),
       error_max |-> fabs(a[1])]

\* the accumulators of compute_metrics before the loop
metrics_begin(t, a, b) ==
  LET diff_min == elem_sub(t, a[1], b[1])
  IN  [sum_of_squared_error |-> 0,
       sum_of_difference |-> 0,
       sum_of_error |-> 0,
       sum_of_values_squared |-> 0,
       sum |-> 0,
       num_elements |-> 0,
       value_min |-> a[1],
       value_max |-> a[1],
       diff_min |-> diff_min,
       diff_max |-> diff_min,
       error_min |-> fabs(dsub(a[1], b[1])),
       error_max |-> fabs(diff_min)]

\* one iteration of the loop of compute_metrics, on the elements x and y
metrics_step(t, acc, x, y) ==
  LET diff == elem_sub(t, x, y)
      error == fabs(diff)
      squared_error == dmul(error, error)
  IN  [sum_of_squared_error |-> dadd(acc.sum_of_squared_error, squared_error),
       sum_of_difference |-> dadd(acc.sum_of_difference, diff),
       sum_of_error |-> dadd(acc.sum_of_error, error),
       sum_of_values_squared |->
         dadd(acc.sum_of_values_squared, elem_mul(t, x, x)),
       sum |-> dadd(acc.sum, x),
       num_elements |-> acc.num_elements + 1,
       value_min |-> std_min(acc.value_min, x),
       value_max |-> std_max(acc.value_max, x),
       diff_min |-> std_min(diff, acc.diff_min),
       diff_max |-> std_max(diff, acc.diff_max),
       error_min |-> std_min(error, acc.error_min),
       error_max |-> std_max(error, acc.error_max)]

RECURSIVE metrics_loop(_, _, _, _, _)
\* while(input_begin != input_end), from element i on
metrics_loop(t, a, b, i, acc) ==
  IF i > Len(a) THEN acc
  ELSE metrics_loop(t, a, b, i + 1, metrics_step(t, acc, a[i], b[i]))

\* a quotient of two doubles, held as numerator and denominator
Quot(n, d) == [num |-> n, den |-> d]

RECURSIVE isqrt(_, _, _)
\* the largest r in lo..hi with r * r <= n
isqrt(n, lo, hi) ==
  IF lo = hi THEN lo
  ELSE LET mid == (lo + hi + 1) \div 2
       IN  IF mid * mid <= n THEN isqrt(n, mid, hi) ELSE isqrt(n, lo, mid - 1)

\* sqrt of a quotient q >= 0 with a positive denominator: a quotient when the
\* root is rational, otherwise q itself marked as standing under the root
sqrt(q) ==
  LET r == isqrt(q.num * q.den, 0, Min(q.num * q.den, 2 ^ 15))
  IN  IF q.num = NaN \/ isinf(q.num) THEN [num |-> q.num, den |-> 1, root |-> FALSE]
      ELSE IF r * r = q.num * q.den THEN [num |-> r, den |-> q.den, root |-> FALSE]
      ELSE [num |-> q.num, den |-> q.den, root |-> TRUE]

\* the error_metrics derived after the loop
metrics_derive(t, acc) ==
  LET n == acc.num_elements
      mse == Quot(acc.sum_of_squared_error, n)
      value_range == elem_sub(t, acc.value_max, acc.value_min)
  IN  [mse |-> mse,
       rmse |-> sqrt(mse),
       average_difference |-> Quot(acc.sum_of_difference, n),
       average_error |-> Quot(acc.sum_of_error, n),
       value_min |-> acc.value_min,
       value_max |-> acc.value_max,
       value_mean |-> Quot(acc.sum, n),
       value_std |->
         Quot(dsub(dmul(acc.sum_of_values_squared, n), dmul(acc.sum, acc.sum)),
              n),
       value_range |-> value_range,
       difference_range |-> elem_sub(t, acc.diff_max, acc.diff_min),
       error_range |-> dsub(acc.error_max, acc.error_min),
       min_error |-> acc.error_min,
       max_error |-> acc.error_max,
       min_rel_error |-> Quot(acc.error_min, value_range),
       max_rel_error |-> Quot(acc.error_max, value_range)]

\* compute_metrics::operator() on two non-empty ranges of equal length
compute_metrics(dtype, a, b) ==
  LET t == value_type(dtype)
  IN  metrics_derive(t, metrics_loop(t, a, b, 1, metrics_begin(t, a, b)))

\* longest dataset drawn from the boundary values
MaxElements == 2

\* values of type t at the ends of its range and around zero
BoundaryValues(t) ==
  IF t.float THEN {0 - 1, 0, 2, Infinity, NaN}
  ELSE IF t.signed THEN {TypeMin(t), 0 - 1, 0, 1, TypeMax(t)}
  ELSE {0, 1, TypeMax(t) - 1, TypeMax(t)}

Buffers(dtype) ==
  UNION {[1..n -> BoundaryValues(value_type(dtype))] : n \in 1..MaxElements}
    \cup {<<1, 2, 3, 4>>, <<1, 2, 3, 5>>}

StatDatasets ==
  UNION {{[dtype |-> d, data |-> a] : a \in Buffers(d)} :
           d \in IntegerDtypes \cup FloatDtypes}

NoMetrics == [has |-> FALSE]

\* no clone of the error_stat_plugin has been made
NoStatClone ==
  [exists |-> FALSE, input_data |-> [dtype |-> "byte", data |-> <<>>],
   err_metrics |-> NoMetrics]

\* the datasets and the end_decompress arguments of the smaller world
StatSessionDatasets ==
  { [dtype |-> "uint8", data |-> <<1, 2>>], [dtype |-> "uint8", data |-> <<3, 2>>] }

StatSessionEndArgs ==
  { Args([dtype |-> "uint8", data |-> <<9, 2>>],
         [dtype |-> "uint8", data |-> <<1, 1>>], 1),
    Args([dtype |-> "freed", data |-> <<>>],
         [dtype |-> "uint8", data |-> <<3, 2>>], 0) }

(***************************************************************************)
(* Operations of external_metric_plugin                                    *)
(***************************************************************************)

\* no clone has been made
NoClone ==
  [exists |-> FALSE, command |-> <<>>, io_format |-> "", io_module |-> NullIo,
   shares_io |-> FALSE, input_data |-> EmptyData, results |-> OptEmpty]

InitRunner ==
  /\ command = <<>>
  /\ io_format = "posix"
  /\ io_module = NullIo
  /\ input_data = EmptyData
  /\ results = OptSetType(OptSetType(OptSetType(OptEmpty,
                 K_error_code, "int32", 0),
                 K_return_code, "int32", 0),
                 K_stderr, "charptr", <<>>)
  /\ pc = "idle"
  /\ files = {}
  /\ tmp_fds = 0
  /\ pipe_fds = 0
  /\ proc = extern_proc_results
  /\ stdout_stream = <<>>
  /\ stderr_stream = <<>>
  /\ status = Exited(0)
  /\ child = "none"
  /\ child_out = <<>>
  /\ child_err = <<>>
  /\ child_end = Exited(0)
  /\ pipe_out = <<>>
  /\ pipe_err = <<>>
  /\ end_args = NoArgs
  /\ full_command = <<>>
  /\ file_data = file_contents({}, <<>>, <<>>)
  /\ cloned = NoClone
  /\ parse_files = {}

\* error_stat_plugin as constructed
InitStat ==
  /\ stat_input_data = [dtype |-> "byte", data |-> <<>>]
  /\ stat_output = [dtype |-> "byte", data |-> <<>>]
  /\ stat_original = [dtype |-> "byte", data |-> <<>>]
  /\ stat_cloned = NoStatClone
  /\ err_metrics = NoMetrics

\* csv_io as constructed, in a directory that holds none of its files
InitCsv ==
  /\ csv = [path |-> "", headers |-> <<>>, skip_rows |-> 0]
  /\ csv_rc = 0
  /\ disk = <<>>

Init == InitRunner /\ InitStat /\ InitCsv

\* the clone once this plugin's io_module is `module`: the same backend
\* object with new settings, or (rebound) a new object
clone_after(module, rebound) ==
  IF rebound THEN [cloned EXCEPT !.shares_io = FALSE]
  ELSE IF cloned.shares_io THEN [cloned EXCEPT !.io_module = module]
  ELSE cloned

\* set_metrics_options(opt), opt holding external:command = c and
\* external:io_format = f, each if the key is held; io_module->set_options(opt)
\* dereferences the module, bound or not
set_metrics_options_of(commands, formats) ==
  /\ pc = "idle"
  /\ \E c \in Key(commands), f \in Key({<<x>> : x \in formats}) :
       LET module == IF f.has THEN get_io(f.v[1]) ELSE io_module
       IN  /\ command' = IF c.has THEN c.v ELSE command
           /\ io_format' = IF f.has THEN f.v[1] ELSE io_format
           /\ io_module' = module
           /\ cloned' = clone_after(module, f.has)
           /\ pc' = IF module.bound THEN "idle" ELSE "crashed"
  /\ UNCHANGED <<input_data, results, files, tmp_fds, pipe_fds, proc,
                 stdout_stream, stderr_stream, status>>
  /\ UNCHANGED call_vars
  /\ UNCHANGED child_vars
  /\ UNCHANGED parse_files
  /\ UNCHANGED <<stat_vars, csv_vars>>

set_metrics_options == set_metrics_options_of(Commands, Formats)

\* begin_compress(input, _)
begin_compress_of(inputs) ==
  /\ pc = "idle"
  /\ \E d \in inputs : input_data' = pressio_data_clone(d)
  /\ UNCHANGED <<command, io_format, io_module, results, pc, files, tmp_fds,
                 pipe_fds, proc, stdout_stream, stderr_stream, status, cloned>>
  /\ UNCHANGED call_vars
  /\ UNCHANGED child_vars
  /\ UNCHANGED parse_files
  /\ UNCHANGED <<stat_vars, csv_vars>>

begin_compress == begin_compress_of(Datasets)

\* end_decompress on a plugin whose io_module was never bound: run_external
\* stops at io_module->set_options, after the first mkstemp
end_decompress_unbound ==
  /\ pc = "idle"
  /\ ~io_module.bound
  /\ pc' = "crashed"
  /\ files' = IF input_fd_ok THEN files \cup {input_fd_name} ELSE files
  /\ file_data' = file_contents(files', file_data, <<>>)
  /\ tmp_fds' = IF input_fd_ok THEN 1 ELSE 0
  /\ UNCHANGED <<pipe_fds, proc, stdout_stream, stderr_stream, status,
                 end_args, full_command, cloned>>
  /\ UNCHANGED plugin_vars
  /\ UNCHANGED child_vars
  /\ UNCHANGED parse_files
  /\ UNCHANGED <<stat_vars, csv_vars>>

\* end_decompress when run_command fails to create one of its pipes
end_decompress_pipe_error ==
  /\ pc = "idle"
  /\ io_module.bound
  /\ ~(stdout_pipe_ok /\ stderr_pipe_ok)
  /\ io_module' = [io_module EXCEPT !.path = output_fd_name]
  /\ cloned' = clone_after(io_module', FALSE)
  /\ pipe_fds' = IF stdout_pipe_ok THEN pipe_fds + 2 ELSE pipe_fds
  /\ run_external_finish(
       [extern_proc_results EXCEPT !.return_code = 0 - 1,
                                   !.error_code = pipe_error],
       files \cup tmp_files_written)
  /\ UNCHANGED <<command, io_format, input_data>>
  /\ UNCHANGED <<stat_vars, csv_vars>>

\* end_decompress when fork fails
end_decompress_fork_error ==
  /\ pc = "idle"
  /\ io_module.bound
  /\ stdout_pipe_ok /\ stderr_pipe_ok
  /\ io_module' = [io_module EXCEPT !.path = output_fd_name]
  /\ cloned' = clone_after(io_module', FALSE)
  /\ pipe_fds' = pipe_fds + 4
  /\ run_external_finish(
       [extern_proc_results EXCEPT !.return_code = 0 - 1,
                                   !.error_code = fork_error],
       files \cup tmp_files_written)
  /\ UNCHANGED <<command, io_format, input_data>>
  /\ UNCHANGED <<stat_vars, csv_vars>>

\* end_decompress(args) up to the first read of run_command: temporary files
\* written, command built, pipes created, child forked, write ends closed in
\* the parent.  The child runs one of the programs, or fails in execvp.
end_decompress_fork_of(arguments, programs) ==
  /\ pc = "idle"
  /\ io_module.bound
  /\ stdout_pipe_ok /\ stderr_pipe_ok
  /\ \E args \in arguments :
       /\ end_args' = args
       /\ file_data' =
            file_contents(files \cup tmp_files_written, file_data,
              tmp_file_data([io_module EXCEPT !.path = output_fd_name],
                run_external_original(input_data, args), args.output))
  /\ full_command' =
       build_command(command, input_fd_name, output_fd_name, input_data)
  /\ \E prog \in programs \cup {exec_failed(full_command')} :
       /\ child_out' = prog.out
       /\ child_err' = prog.err
       /\ child_end' = prog.end
  /\ child' = "running"
  /\ pipe_out' = <<>>
  /\ pipe_err' = <<>>
  /\ io_module' = [io_module EXCEPT !.path = output_fd_name]
  /\ cloned' = clone_after(io_module', FALSE)
  /\ files' = files \cup tmp_files_written
  /\ tmp_fds' = tmp_fds_opened
  /\ pipe_fds' = pipe_fds + 2
  /\ status' = Exited(0)
  /\ stdout_stream' = <<>>
  /\ stderr_stream' = <<>>
  /\ pc' = "read_stdout"
  /\ UNCHANGED <<command, io_format, input_data, results, proc>>
  /\ UNCHANGED parse_files
  /\ UNCHANGED <<stat_vars, csv_vars>>

\* the caller passes the dataset it gave to begin_compress and the status 0
end_decompress_fork ==
  end_decompress_fork_of({Args(input_data, d, 0) : d \in Datasets}, Programs)

\* csv_io::clone(): a backend object of its own with the settings of module
io_clone(module) == module

\* clone() that hands the clone this plugin's backend object
clone_plugin_shared_io(cmd, format, module, data, res) ==
  [exists |-> TRUE, command |-> cmd, io_format |-> format,
   io_module |-> module, shares_io |-> TRUE, input_data |-> data,
   results |-> res]

\* clone() of a plugin whose io_module is bound: the members copied, the
\* backend cloned into an object of its own
clone_plugin(cmd, format, module, data, res) ==
  [exists |-> TRUE, command |-> cmd, io_format |-> format,
   io_module |-> module, shares_io |-> FALSE, input_data |-> data,
   results |-> res]

\* clone(); the model follows the first clone made
clone ==
  /\ pc = "idle"
  /\ ~cloned.exists
  /\ IF io_module.bound
     THEN /\ cloned' = clone_plugin(command, io_format, io_clone(io_module),
                                    pressio_data_clone(input_data), results)
          /\ pc' = "idle"
     ELSE /\ pc' = "crashed"
          /\ UNCHANGED cloned
  /\ UNCHANGED <<files, tmp_fds, pipe_fds, proc, stdout_stream, stderr_stream,
                 status>>
  /\ UNCHANGED plugin_vars
  /\ UNCHANGED call_vars
  /\ UNCHANGED child_vars
  /\ UNCHANGED parse_files
  /\ UNCHANGED <<stat_vars, csv_vars>>

\* while((nread = read(stdout_pipe_fd[0], buffer, 2048)) > 0): blocks while
\* the pipe is empty and the child holds its write end
read_stdout ==
  /\ pc = "read_stdout"
  /\ pipe_out # <<>> \/ child # "running"
  /\ LET nread == Min(BufferSize, Len(pipe_out))
     IN  /\ stdout_stream' = stdout_stream \o SubSeq(pipe_out, 1, nread)
         /\ pipe_out' = SubSeq(pipe_out, nread + 1, Len(pipe_out))
         /\ pc' = IF nread > 0 THEN "read_stdout" ELSE "read_stderr"
  /\ UNCHANGED <<files, tmp_fds, pipe_fds, proc, stderr_stream, status,
                 child, child_out, child_err, child_end, pipe_err>>
  /\ UNCHANGED <<end_args, full_command, file_data, cloned>>
  /\ UNCHANGED plugin_vars
  /\ UNCHANGED parse_files
  /\ UNCHANGED <<stat_vars, csv_vars>>

\* while((nread = read(stderr_pipe_fd[0], buffer, 2048)) > 0)
read_stderr ==
  /\ pc = "read_stderr"
  /\ pipe_err # <<>> \/ child # "running"
  /\ LET nread == Min(BufferSize, Len(pipe_err))
     IN  /\ stderr_stream' = stderr_stream \o SubSeq(pipe_err, 1, nread)
         /\ pipe_err' = SubSeq(pipe_err, nread + 1, Len(pipe_err))
         /\ pc' = IF nread > 0 THEN "read_stderr" ELSE "waitpid"
  /\ UNCHANGED <<files, tmp_fds, pipe_fds, proc, stdout_stream, status,
                 child, child_out, child_err, child_end, pipe_out>>
  /\ UNCHANGED <<end_args, full_command, file_data, cloned>>
  /\ UNCHANGED plugin_vars
  /\ UNCHANGED parse_files
  /\ UNCHANGED <<stat_vars, csv_vars>>

\* waitpid(child, &status, 0) and the loop test: a terminated child is reaped
\* and its status stored; once it is reaped waitpid fails and leaves status.
\* When WIFEXITED(status) the loop ends and run_command returns its results.
waitpid_loop ==
  /\ pc = "waitpid"
  /\ child \in {"zombie", "reaped"}
  /\ LET st == IF child = "zombie" THEN child_end ELSE status
     IN  /\ status' = st
         /\ child' = "reaped"
         /\ IF WIFEXITED(st)
            THEN /\ proc' = [extern_proc_results EXCEPT
                               !.proc_stdout = stdout_stream,
                               !.proc_stderr = stderr_stream,
                               !.return_code = WEXITSTATUS(st)]
                 /\ pc' = "parse_result"
            ELSE /\ pc' = "read_stdout"
                 /\ UNCHANGED proc
  /\ UNCHANGED <<files, tmp_fds, pipe_fds, stdout_stream, stderr_stream,
                 child_out, child_err, child_end, pipe_out, pipe_err>>
  /\ UNCHANGED <<end_args, full_command, file_data, cloned>>
  /\ UNCHANGED plugin_vars
  /\ UNCHANGED parse_files
  /\ UNCHANGED <<stat_vars, csv_vars>>

\* run_external after run_command has returned from its wait loop
run_external_parse ==
  /\ pc = "parse_result"
  /\ run_external_finish(proc, files)
  /\ UNCHANGED <<command, io_format, io_module, input_data, pipe_fds, cloned>>
  /\ UNCHANGED <<stat_vars, csv_vars>>

\* the child writes to its stdout as much as the pipe takes
child_write_stdout ==
  /\ child = "running"
  /\ child_out # <<>>
  /\ Len(pipe_out) < PipeCap
  /\ LET n == Min(Len(child_out), PipeCap - Len(pipe_out))
     IN  /\ pipe_out' = pipe_out \o SubSeq(child_out, 1, n)
         /\ child_out' = SubSeq(child_out, n + 1, Len(child_out))
  /\ UNCHANGED <<pc, files, tmp_fds, pipe_fds, proc, stdout_stream,
                 stderr_stream, status, child, child_err, child_end, pipe_err>>
  /\ UNCHANGED <<end_args, full_command, file_data, cloned>>
  /\ UNCHANGED plugin_vars
  /\ UNCHANGED parse_files
  /\ UNCHANGED <<stat_vars, csv_vars>>

\* the child writes to its stderr as much as the pipe takes
child_write_stderr ==
  /\ child = "running"
  /\ child_err # <<>>
  /\ Len(pipe_err) < PipeCap
  /\ LET n == Min(Len(child_err), PipeCap - Len(pipe_err))
     IN  /\ pipe_err' = pipe_err \o SubSeq(child_err, 1, n)
         /\ child_err' = SubSeq(child_err, n + 1, Len(child_err))
  /\ UNCHANGED <<pc, files, tmp_fds, pipe_fds, proc, stdout_stream,
                 stderr_stream, status, child, child_out, child_end, pipe_out>>
  /\ UNCHANGED <<end_args, full_command, file_data, cloned>>
  /\ UNCHANGED plugin_vars
  /\ UNCHANGED parse_files
  /\ UNCHANGED <<stat_vars, csv_vars>>

\* the child has written everything and terminates: exit or fatal signal
child_terminate ==
  /\ child = "running"
  /\ child_out = <<>>
  /\ child_err = <<>>
  /\ child' = "zombie"
  /\ UNCHANGED <<pc, files, tmp_fds, pipe_fds, proc, stdout_stream,
                 stderr_stream, status, child_out, child_err, child_end,
                 pipe_out, pipe_err>>
  /\ UNCHANGED <<end_args, full_command, file_data, cloned>>
  /\ UNCHANGED plugin_vars
  /\ UNCHANGED parse_files
  /\ UNCHANGED <<stat_vars, csv_vars>>

Next ==
  \/ set_metrics_options
  \/ begin_compress
  \/ end_decompress_unbound
  \/ end_decompress_pipe_error
  \/ end_decompress_fork_error
  \/ end_decompress_fork
  \/ read_stdout
  \/ read_stderr
  \/ waitpid_loop
  \/ run_external_parse
  \/ child_write_stdout
  \/ child_write_stderr
  \/ child_terminate

Spec == Init /\ [][Next]_vars

(***************************************************************************)
(* Operations of error_stat_plugin                                         *)
(***************************************************************************)

\* error_stat_plugin::begin_compress(input, _), of a first cycle
stat_begin_compress_of(inputs) ==
  /\ ~err_metrics.has
  /\ \E d \in inputs : stat_input_data' = pressio_data_clone(d)
  /\ UNCHANGED <<stat_output, stat_original, err_metrics, stat_cloned>>
  /\ UNCHANGED <<runner_vars, csv_vars>>

stat_begin_compress == stat_begin_compress_of(StatDatasets)

\* end_decompress that hands its first argument to compute_metrics
for_each_original_from_argument(captured, args) == args.original

\* end_decompress: pressio_data_for_each(input_data, *output, ...), the
\* dataset that is compared as the original
for_each_original(captured, args) == captured

\* error_stat_plugin::end_decompress(args) with an output of the type and
\* length of the captured input, which is not empty
stat_end_decompress_of(arguments) ==
  /\ stat_input_data.data # <<>>
  /\ ~err_metrics.has
  /\ \E args \in arguments :
       /\ args.output.dtype = stat_input_data.dtype
       /\ Len(args.output.data) = Len(stat_input_data.data)
       /\ stat_output' = args.output
       /\ stat_original' = args.original
       /\ err_metrics' =
            [has |-> TRUE,
             m |-> compute_metrics(args.output.dtype,
                     for_each_original(stat_input_data, args).data,
                     args.output.data)]
  /\ UNCHANGED <<stat_input_data, stat_cloned>>
  /\ UNCHANGED <<runner_vars, csv_vars>>

\* the caller passes the dataset it gave to begin_compress and the status 0
stat_end_decompress ==
  stat_end_decompress_of({Args(stat_input_data, out, 0) : out \in StatDatasets})

\* error_stat_plugin::clone(): a copy of the plugin; the model follows the
\* first clone made
stat_clone ==
  /\ ~stat_cloned.exists
  /\ stat_cloned' = [exists |-> TRUE,
                     input_data |-> pressio_data_clone(stat_input_data),
                     err_metrics |-> err_metrics]
  /\ UNCHANGED <<stat_input_data, stat_output, stat_original, err_metrics>>
  /\ UNCHANGED <<runner_vars, csv_vars>>

NextStat == stat_begin_compress \/ stat_end_decompress

SpecStat == Init /\ [][NextStat]_vars

(***************************************************************************)
(* Operations of a csv_io                                                  *)
(***************************************************************************)

\* csv_io::set_options_impl(opts): each key the options hold is taken
csv_set_options ==
  /\ \E has_path, has_headers, has_skip_rows \in BOOLEAN :
       \E p \in CsvPaths, h \in CsvHeaders, k \in CsvSkipRows :
         csv' = [path |-> IF has_path THEN p ELSE csv.path,
                 headers |-> IF has_headers THEN h ELSE csv.headers,
                 skip_rows |-> IF has_skip_rows THEN k ELSE csv.skip_rows]
  /\ UNCHANGED <<csv_rc, disk>>
  /\ UNCHANGED <<runner_vars, stat_vars>>

\* write(data) of the csv_io
csv_write_of(data) ==
  /\ csv_rc' = write_impl(csv.path, csv.headers, disk, data).rc
  /\ disk' = write_impl(csv.path, csv.headers, disk, data).fs
  /\ UNCHANGED csv
  /\ UNCHANGED <<runner_vars, stat_vars>>

csv_write == \E data \in CsvDatasets : csv_write_of(data)

NextCsv == csv_set_options \/ csv_write

SpecCsv == Init /\ [][NextCsv]_vars

(***************************************************************************)
(* A session of a caller that owns several datasets and clones its plugins  *)
(***************************************************************************)

\* The two plugins have no variable in common: the session works with one of
\* them, the other staying as constructed.
NextSession ==
  \/ InitStat /\ set_metrics_options_of(SessionCommands, SessionFormats)
  \/ InitStat /\ begin_compress_of(SessionDatasets)
  \/ InitStat /\ end_decompress_unbound
  \/ InitStat /\ end_decompress_pipe_error
  \/ InitStat /\ end_decompress_fork_error
  \/ InitStat /\ end_decompress_fork_of(SessionEndArgs, SessionPrograms)
  \/ InitStat /\ read_stdout
  \/ InitStat /\ read_stderr
  \/ InitStat /\ waitpid_loop
  \/ InitStat /\ run_external_parse
  \/ InitStat /\ child_write_stdout
  \/ InitStat /\ child_write_stderr
  \/ InitStat /\ child_terminate
  \/ InitStat /\ clone
  \/ InitRunner /\ stat_begin_compress_of(StatSessionDatasets)
  \/ InitRunner /\ stat_end_decompress_of(StatSessionEndArgs)
  \/ InitRunner /\ stat_clone

SpecSession == Init /\ [][NextSession]_vars

\* the scheduler keeps running the parent and the child while they can step
SpecFair ==
  /\ Spec
  /\ WF_vars(read_stdout)
  /\ WF_vars(read_stderr)
  /\ WF_vars(waitpid_loop)
  /\ WF_vars(child_write_stdout)
  /\ WF_vars(child_write_stderr)
  /\ WF_vars(child_terminate)

(***************************************************************************)
(* Vocabulary of the properties                                            *)
(***************************************************************************)

\* end_decompress has returned at least once and the caller has control
Returned == pc = "idle" /\ results[K_error_code].has

\* the keys of the external:results:* entries
ResultKeys(res) == {k \in DOMAIN res : k[1] = "external:results:"}

RECURSIVE SplitLines(_)
\* the lines of a text, a last line without newline included
SplitLines(text) ==
  IF text = <<>> THEN <<>>
  ELSE IF \E i \in 1..Len(text) : text[i] = "\n"
       THEN LET i == CHOOSE i \in 1..Len(text) :
                       text[i] = "\n" /\ \A j \in 1..(i - 1) : text[j] # "\n"
            IN  <<SubSeq(text, 1, i - 1)>> \o SplitLines(SubSeq(text, i + 1, Len(text)))
       ELSE <<text>>

\* line is external:api=<version>, version a decimal number
IsApiLine(line) ==
  /\ Len(line) >= 3
  /\ line[1] = "external:api"
  /\ line[2] = "="
  /\ \A i \in 3..Len(line) : line[i] \in Digits

IsApi1Line(line) == line = <<"external:api", "=", "1">>

\* text is a decimal number: digits with at most one '.', an optional sign
IsNumber(text) ==
  LET u == IF text # <<>> /\ Head(text) \in {"+", "-"} THEN Tail(text) ELSE text
  IN  /\ \A i \in 1..Len(u) : u[i] \in Digits \cup {"."}
      /\ Cardinality({i \in 1..Len(u) : u[i] = "."}) <= 1
      /\ \E i \in 1..Len(u) : u[i] \in Digits

\* the value a decimal number denotes, as num / 10^exp
NumberValue(text) ==
  LET neg == Head(text) = "-"
      u == IF Head(text) \in {"+", "-"} THEN Tail(text) ELSE text
      ds == SelectSeq(u, LAMBDA c : c \in Digits)
      dot == IF \E i \in 1..Len(u) : u[i] = "."
             THEN CHOOSE i \in 1..Len(u) : u[i] = "." ELSE Len(u)
      c == Canonical(DecimalValue(ds, 0), Len(u) - dot)
  IN  IF neg THEN [num |-> 0 - c.num, exp |-> c.exp] ELSE c

\* position of the '=' that separates name and value, 0 if there is none
EqAt(line) ==
  IF \E i \in 1..Len(line) : line[i] = "="
  THEN CHOOSE i \in 1..Len(line) : line[i] = "=" /\ \A j \in 1..(i - 1) : line[j] # "="
  ELSE 0

NameOf(line) == SubSeq(line, 1, EqAt(line) - 1)

ValueOf(line) == SubSeq(line, EqAt(line) + 1, Len(line))

\* line is <name>=<value> with a numeric value
IsResultLine(line) == EqAt(line) > 0 /\ IsNumber(ValueOf(line))

\* a line no number can be read from: nothing, or no digit where the number
\* should start
IsUnparsable(line) ==
  LET v == ValueOf(line)
      u == IF v # <<>> /\ Head(v) \in {"+", "-"} THEN Tail(v) ELSE v
  IN  \/ u = <<>>
      \/ Head(u) \notin Digits \cup {"."}
      \/ Head(u) = "." /\ (Len(u) = 1 \/ u[2] \notin Digits)

\* stdout is the line external:api=1 followed by <name>=<value> lines
IsV1Output(text) ==
  LET ls == SplitLines(text)
  IN  /\ ls # <<>>
      /\ IsApi1Line(ls[1])
      /\ \A i \in 2..Len(ls) : IsResultLine(ls[i])

(***************************************************************************)
(* Properties of the external metrics runner                               *)
(***************************************************************************)

\* the first line of a text; nothing when the text is empty
FirstLine(text) == IF text = <<>> THEN <<>> ELSE SplitLines(text)[1]

\* the result set of the format_error outcome holds no result entry
IsFormatError(res) ==
  /\ res[K_error_code] = OptInt(format_error)
  /\ ResultKeys(res) = {}

\* C1: whenever the captured stdout does not start with a line of the form
\* external:api=<version>, the results after end_decompress report
\* format_error and hold no external:results:* entry.
C1_MissingApiLineIsFormatError ==
  (Returned /\ ~IsApiLine(FirstLine(proc.proc_stdout)))
    => IsFormatError(results)

\* the entry the last line named n gives, among the lines ls[2..]
LastValue(ls, n) ==
  LET i == CHOOSE i \in 2..Len(ls) :
             NameOf(ls[i]) = n /\ \A j \in (i + 1)..Len(ls) : NameOf(ls[j]) # n
  IN  OptDouble(NumberValue(ValueOf(ls[i])))

\* the three fixed fields are present and carry stderr and the exit status
FixedFieldsOf(res, p) ==
  /\ res[K_stderr] = OptString(p.proc_stderr)
  /\ res[K_return_code] = OptInt(p.return_code)
  /\ res[K_error_code].has
  /\ res[K_error_code].type = "int32"

\* C2 as stated: after a run whose stdout is external:api=1 followed by
\* <name>=<value> lines, every line has its entry external:results:<name>
\* with the value of that line, and the only other entries are the three
\* fixed fields.
C2_EveryLineHasItsEntry ==
  (Returned /\ IsV1Output(proc.proc_stdout)) =>
    LET ls == SplitLines(proc.proc_stdout)
    IN  /\ \A i \in 2..Len(ls) :
             /\ K_result(NameOf(ls[i])) \in DOMAIN results
             /\ results[K_result(NameOf(ls[i]))]
                  = OptDouble(NumberValue(ValueOf(ls[i])))
        /\ DOMAIN results
             = FixedKeys \cup {K_result(NameOf(ls[i])) : i \in 2..Len(ls)}
        /\ FixedFieldsOf(results, proc)

\* C2 amended: after a run whose stdout is external:api=1 followed by
\* <name>=<value> lines, every name has its entry external:results:<name>
\* with the value of the last line of that name, and the only other entries
\* are the three fixed fields: the captured stderr, the exit status of the
\* child, and the error code.
C2_LastLineOfEachNameWins ==
  (Returned /\ IsV1Output(proc.proc_stdout)) =>
    LET ls == SplitLines(proc.proc_stdout)
    IN  /\ \A i \in 2..Len(ls) :
             /\ K_result(NameOf(ls[i])) \in DOMAIN results
             /\ results[K_result(NameOf(ls[i]))] = LastValue(ls, NameOf(ls[i]))
        /\ DOMAIN results
             = FixedKeys \cup {K_result(NameOf(ls[i])) : i \in 2..Len(ls)}
        /\ FixedFieldsOf(results, proc)

\* a run returned whose stdout gave the name foo twice, and foo has the
\* value of the second line
C2_Witness ==
  /\ Returned
  /\ proc.proc_stdout = ApiLine("1") \o <<"foo", "=", "1", "\n", "foo", "=", "2", "\n">>
  /\ results[K_result(<<"foo">>)] = OptDouble([num |-> 2, exp |-> 0])

\* C3: when a line after a valid external:api=1 line cannot be parsed as a
\* number, the results after end_decompress report format_error and hold no
\* external:results:* entry, neither of the lines before it nor of an
\* earlier run.
C3_BadLineClearsResults ==
  LET ls == SplitLines(proc.proc_stdout)
  IN  (/\ Returned
       /\ ls # <<>>
       /\ IsApi1Line(ls[1])
       /\ \E i \in 2..Len(ls) : IsUnparsable(ls[i]))
        => IsFormatError(results)

\* a run returned whose stdout had a well-formed line before a bad one
C3_Witness ==
  /\ Returned
  /\ proc.proc_stdout = ApiLine("1") \o FooLine \o <<"bad", "\n">>
  /\ IsFormatError(results)

\* C4: once end_decompress has returned, neither temporary file exists,
\* whatever the outcome of the run.
C4_NoTempFileAfterEnd == Returned => files = {}

\* a run returned whose child had both temporary files and exited nonzero
C4_Witness ==
  /\ Returned
  /\ proc.error_code = success
  /\ proc.return_code = 3
  /\ files = {}

\* the child cannot go on: all it has left to write goes to a full pipe
ChildBlocked ==
  /\ child = "running"
  /\ \/ child_out # <<>> /\ Len(pipe_out) = PipeCap /\ child_err = <<>>
     \/ child_err # <<>> /\ Len(pipe_err) = PipeCap /\ child_out = <<>>

\* the parent is in a read of a pipe that is empty and still open for writing
ParentBlocked ==
  \/ pc = "read_stdout" /\ pipe_out = <<>> /\ child = "running"
  \/ pc = "read_stderr" /\ pipe_err = <<>> /\ child = "running"

\* C5: the child is never blocked writing to a full pipe while the parent is
\* blocked reading the other pipe.
C5_NoPipeDeadlock == ~(ChildBlocked /\ ParentBlocked)

\* C6: whenever the child has terminated, by exit or by a signal, run_command
\* eventually returns and the caller regains control.
C6_TerminatedChildIsReturned ==
  (child = "zombie") ~> (pc \in {"parse_result", "idle"})

\* C7: when end_decompress has returned the process holds no open pipe
\* descriptor, after any number of runs and on every exit path.
C7_NoPipeDescriptorLeft == Returned => pipe_fds = 0

\* C8: the error code the results report names the failure of the run:
\* pipe_error after a failed pipe, fork_error after a failed fork,
\* format_error after malformed stdout; the result entries are cleared.
C8_ErrorCodeNamesFailure ==
  Returned =>
    /\ ResultKeys(results) = {} \/ proc.error_code = success
    /\ proc.error_code = pipe_error => results[K_error_code] = OptInt(pipe_error)
    /\ proc.error_code = fork_error => results[K_error_code] = OptInt(fork_error)
    /\ (proc.error_code = success /\ ~IsApiLine(FirstLine(proc.proc_stdout)))
         => IsFormatError(results)

\* C11: in every state of the runner a serialization backend is bound and it
\* is the one external:io_format names, "posix" unless configured otherwise.
C11_BackendBoundToFormat == io_module.bound /\ io_module.name = io_format

\* C12: a set_metrics_options that names a format no backend can be made for
\* leaves the backend that was bound before the call bound after it.
C12_FailedRebindKeepsBackend ==
  [][(io_format' # io_format /\ io_format' \notin RegisteredFormats)
       => io_module' = io_module]_vars

\* the names of the lines of a text after its first line
LineNames(text) ==
  LET ls == SplitLines(text) IN {NameOf(ls[i]) : i \in 2..Len(ls)}

\* C13: after any number of cycles the results hold nothing of an earlier
\* end_decompress: every external:results:* entry is named by a line of the
\* stdout of the latest run, the three fixed fields are the only other
\* entries, and a failed run leaves no result entry at all.
C13_OnlyLatestRun ==
  Returned =>
    /\ DOMAIN results \subseteq
         FixedKeys \cup {K_result(n) : n \in LineNames(proc.proc_stdout)}
    /\ results[K_error_code] = OptInt(format_error) => DOMAIN results = FixedKeys

\* a later run returned with foo alone, each earlier run having left two
\* pipe descriptors behind
C13_Witness ==
  /\ Returned
  /\ pipe_fds >= 4
  /\ proc.proc_stdout = ApiLine("1") \o FooLine
  /\ DOMAIN results = FixedKeys \cup {K_result(<<"foo">>)}

\* line is external:api=<v> with a version value other than 1
IsOtherVersionLine(line) ==
  /\ Len(line) >= 3
  /\ line[1] = "external:api"
  /\ line[2] = "="
  /\ SubSeq(line, 3, Len(line)) # <<"1">>

\* C14: when the first line of stdout is external:api=<v> with v other than
\* 1, the results report format_error and hold no external:results:* entry.
C14_OtherVersionIsFormatError ==
  (Returned /\ IsOtherVersionLine(FirstLine(proc.proc_stdout)))
    => IsFormatError(results)

\* C15: when run_external parses the stdout of a child successfully, the
\* results give external:error_code and external:return_code the exit status
\* of that child.
C15_ErrorCodeIsExitStatus ==
  [][(pc = "parse_result" /\ pc' = "idle"
        /\ results'[K_error_code] # OptInt(format_error))
       => /\ results'[K_error_code] = OptInt(WEXITSTATUS(child_end))
          /\ results'[K_return_code] = OptInt(WEXITSTATUS(child_end))]_vars

\* a run returned whose child wrote valid output and exited with status 3
C15_Witness ==
  /\ Returned
  /\ proc.proc_stdout = ApiLine("1") \o FooLine
  /\ proc.return_code = 3
  /\ results[K_error_code] = OptInt(3)
  /\ results[K_return_code] = OptInt(3)

\* the result set of the format_error outcome: the three fixed entries only,
\* with the error code format_error, the return code 0 and an empty stderr
FormatErrorSet(res) ==
  /\ IsFormatError(res)
  /\ res[K_return_code] = OptInt(0)
  /\ res[K_stderr] = OptString(<<>>)

\* the child of the last run failed in execvp: it wrote the name of the
\* command to stdout and the message of perror to stderr, and exited with -1
IsExecFailure ==
  /\ proc.proc_stderr = exec_failed(<<>>).err
  /\ proc.return_code = WEXITSTATUS(exec_failed(<<>>).end)

\* C24: a run that ends in the format_error outcome (error code 4 that is
\* not the exit status of the child) leaves exactly the three fixed entries
\* 4, 0 and ""; that is also what a failed pipe, a failed fork and a failed
\* exec of a command whose name is not a number leave
C24_FailuresEndInFormatError ==
  Returned =>
    /\ (results[K_error_code] = OptInt(format_error)
          /\ proc.return_code # format_error) => FormatErrorSet(results)
    /\ proc.error_code \in {pipe_error, fork_error} => FormatErrorSet(results)
    /\ (IsExecFailure /\ ~IsNumber(FirstLine(proc.proc_stdout)))
         => FormatErrorSet(results)

\* C22: within a run both temporary files are deleted after the child's
\* output is captured and before the captured stdout is parsed: parse_result
\* is never called while a temporary file exists
C22_DeletedBeforeParse == parse_files = {}

\* C22, amended: both temporary files exist while the child runs and its
\* output is captured, still exist when parse_result is called (in every run
\* that created its pipes), and none exists once end_decompress has returned
C22_DeletedAfterParse ==
  /\ pc \in {"read_stdout", "read_stderr", "waitpid", "parse_result"}
       => files = {input_fd_name, output_fd_name}
  /\ Returned
       => /\ files = {}
          /\ proc.error_code # pipe_error
               => parse_files = {input_fd_name, output_fd_name}

\* a run whose child wrote a version 1 output has been parsed and has returned
C22_Witness ==
  /\ Returned
  /\ proc.proc_stdout = ApiLine("1") \o FooLine
  /\ K_result(<<"foo">>) \in DOMAIN results
  /\ parse_files = {input_fd_name, output_fd_name}
  /\ files = {}

(***************************************************************************)
(* Properties of the error statistics                                      *)
(***************************************************************************)

RECURSIVE SumOver(_, _, _)
\* f(a[1], b[1]) + ... + f(a[n], b[n]) in the integers
SumOver(f(_, _), a, b) ==
  IF a = <<>> THEN 0 ELSE f(Head(a), Head(b)) + SumOver(f, Tail(a), Tail(b))

SquaredDifference(x, y) == (x - y) * (x - y)

AbsoluteDifference(x, y) == IF x < y THEN y - x ELSE x - y

SeqMin(a) == CHOOSE x \in {a[i] : i \in 1..Len(a)} : \A i \in 1..Len(a) : x <= a[i]

SeqMax(a) == CHOOSE x \in {a[i] : i \in 1..Len(a)} : \A i \in 1..Len(a) : x >= a[i]

\* C9: for non-empty equal-length datasets of every integer element type
\* the computed value_range, difference_range and error_range are >= 0.
C9_RangesNonNegative ==
  (err_metrics.has /\ stat_input_data.dtype \in IntegerDtypes) =>
    /\ err_metrics.m.value_range >= 0
    /\ err_metrics.m.difference_range >= 0
    /\ err_metrics.m.error_range >= 0

\* C10: for non-empty equal-length datasets of n elements of every integer
\* element type, mse * n is the exact sum of the squared differences,
\* average_error * n the exact sum of the absolute differences, and
\* value_min, value_max and value_range the minimum, the maximum and their
\* difference in the original; [1,2,3,4] against [1,2,3,5] gives
\* mse = 0.25, average_error = 0.25, value_min = 1, value_max = 4 and
\* value_range = 3.
C10_ExactErrorSums ==
  (err_metrics.has /\ stat_input_data.dtype \in IntegerDtypes) =>
    LET m == err_metrics.m
        a == stat_input_data.data
        b == stat_output.data
        n == Len(a)
    IN  /\ m.mse.den = n
        /\ m.mse.num = SumOver(SquaredDifference, a, b)
        /\ m.average_error.den = n
        /\ m.average_error.num = SumOver(AbsoluteDifference, a, b)
        /\ m.value_min = SeqMin(a)
        /\ m.value_max = SeqMax(a)
        /\ m.value_range = SeqMax(a) - SeqMin(a)
        /\ (a = <<1, 2, 3, 4>> /\ b = <<1, 2, 3, 5>>) =>
             /\ 4 * m.mse.num = m.mse.den
             /\ 4 * m.average_error.num = m.average_error.den
             /\ m.value_min = 1 /\ m.value_max = 4 /\ m.value_range = 3


\* every element of the original differs from its reconstruction by c
ConstantOffset(a, b, c) == \A i \in 1..Len(a) : a[i] - b[i] = c

\* C16: for non-empty equal-length datasets of every integer element type
\* whose elements differ by the same c = original[i] - reconstructed[i],
\* average_difference = c and min_error = max_error = |c|.
C16_ConstantOffset ==
  LET m == err_metrics.m
      a == stat_input_data.data
      b == stat_output.data
      c == a[1] - b[1]
  IN  (/\ err_metrics.has
       /\ stat_input_data.dtype \in IntegerDtypes
       /\ ConstantOffset(a, b, c))
        => /\ m.average_difference.num = c * m.average_difference.den
           /\ m.min_error = AbsoluteDifference(c, 0)
           /\ m.max_error = AbsoluteDifference(c, 0)

\* the statistics that are zero when nothing was lost
NoErrorMeasured(m) ==
  /\ m.mse.num = 0
  /\ m.rmse.num = 0 /\ ~m.rmse.root
  /\ m.average_error.num = 0
  /\ m.average_difference.num = 0
  /\ m.min_error = 0
  /\ m.max_error = 0

\* every element is a finite number
AllFinite(a) == \A i \in 1..Len(a) : a[i] # NaN /\ ~isinf(a[i])

\* C19 as stated: for a non-empty dataset of every element type, the
\* statistics against an identical copy give mse = 0, rmse = 0,
\* average_error = 0, average_difference = 0 and min_error = max_error = 0.
C19_IdenticalCopyHasNoError ==
  (err_metrics.has /\ stat_output.data = stat_input_data.data)
    => NoErrorMeasured(err_metrics.m)

\* C19 amended: the same, for datasets all of whose elements are finite
\* (every dataset of an integer type, and the float and double datasets
\* without infinities and NaNs).
C19_FiniteIdenticalCopyHasNoError ==
  (/\ err_metrics.has
   /\ stat_output.data = stat_input_data.data
   /\ AllFinite(stat_input_data.data))
    => NoErrorMeasured(err_metrics.m)

\* a float dataset of two finite non-zero values compared with its copy
C19_Witness ==
  /\ err_metrics.has
  /\ stat_input_data.dtype = "float"
  /\ stat_input_data.data = <<0 - 1, 2>>
  /\ stat_output.data = stat_input_data.data
  /\ NoErrorMeasured(err_metrics.m)

ValueSquared(x, y) == x * x

Value(x, y) == x

\* C23: for non-empty datasets of n elements of every integer element type
\* the squares added to the sum of squared values are exact, so value_std is
\* (the exact sum of the squares) - (the sum)^2 / n
C23_ExactSquares ==
  (err_metrics.has /\ stat_input_data.dtype \in IntegerDtypes) =>
    LET m == err_metrics.m
        a == stat_input_data.data
        n == Len(a)
    IN  /\ m.value_std.den = n
        /\ m.value_std.num =
             n * SumOver(ValueSquared, a, a)
               - SumOver(Value, a, a) * SumOver(Value, a, a)

(***************************************************************************)
(* Properties of a session: capture, command line and clones               *)
(***************************************************************************)

\* run_external has written the temporary files and has not returned
InFlight == pc \in {"read_stdout", "read_stderr", "waitpid", "parse_result"}

\* the file f is what the backend named format makes of the dataset d: its
\* elements, or nothing when the csv backend refuses a shape that is not 2-D
Serializes(f, format, d) ==
  IF format = "csv" /\ Len(d.dims) # 2 THEN f.values = <<>>
  ELSE f.format = format /\ f.values = d.data

\* C17: what end_decompress serializes (external_metric_plugin) or compares
\* (error_stat_plugin) as the original is the dataset the latest
\* begin_compress captured, whatever the first argument and the status
\* argument of end_decompress are.
C17_EndUsesCapturedOriginal ==
  /\ (InFlight /\ input_fd_name \in files) =>
       Serializes(file_data[input_fd_name], io_module.name, input_data)
  /\ (InFlight /\ output_fd_name \in files) =>
       Serializes(file_data[output_fd_name], io_module.name, end_args.output)
  /\ err_metrics.has =>
       /\ err_metrics.m.value_min = SeqMin(stat_input_data.data)
       /\ err_metrics.m.value_max = SeqMax(stat_input_data.data)
       /\ err_metrics.m.mse.num
            = SumOver(SquaredDifference, stat_input_data.data, stat_output.data)

\* a run in progress that was given a changed original and a nonzero status
\* and holds the captured dataset in its input file
C17_Witness ==
  /\ InFlight
  /\ input_data = FloatData
  /\ end_args.original = MutatedData
  /\ end_args.status = 1
  /\ input_fd_name \in files
  /\ file_data[input_fd_name].values = FloatData.data

RECURSIVE Words(_)
\* the words of a command line, separated by single spaces
Words(text) ==
  IF text = <<>> THEN <<>>
  ELSE IF Head(text) = " " THEN Words(Tail(text))
  ELSE <<SubSeq(text, 1, WordLen(text))>>
         \o Words(SubSeq(text, WordLen(text) + 1, Len(text)))

\* the type names of the command-line contract
TypeNames ==
  { <<"float", <<"float">> >>, <<"double", <<"double">> >>,
    <<"int8", <<"int", "8">> >>, <<"int16", <<"int", "1", "6">> >>,
    <<"int32", <<"int", "3", "2">> >>, <<"int64", <<"int", "6", "4">> >>,
    <<"uint8", <<"uint", "8">> >>, <<"uint16", <<"uint", "1", "6">> >>,
    <<"uint32", <<"uint", "3", "2">> >>, <<"uint64", <<"uint", "6", "4">> >>,
    <<"byte", <<"byte">> >> }

\* C18: the command line of a run is the command template followed by
\* --api 1, --input <input file>, --decompressed <output file>,
\* --type <type name of the captured dataset> and one --dim <extent> per
\* dimension of the captured dataset, in shape order, and nothing else.
C18_CommandLine ==
  InFlight =>
    LET w == Words(full_command)
        c == Words(command)
        n == Len(c)
        dims == input_data.dims
    IN  /\ Len(w) = n + 8 + 2 * Len(dims)
        /\ SubSeq(w, 1, n) = c
        /\ SubSeq(w, n + 1, n + 8)
             = << <<"--api">>, <<"1">>, <<"--input">>, input_fd_name,
                  <<"--decompressed">>, output_fd_name, <<"--type">>,
                  w[n + 8] >>
        /\ <<input_data.dtype, w[n + 8]>> \in TypeNames
        /\ \A i \in 1..Len(dims) :
             /\ w[n + 8 + 2 * i - 1] = <<"--dim">>
             /\ DigitRun(w[n + 8 + 2 * i]) = Len(w[n + 8 + 2 * i])
             /\ DecimalValue(w[n + 8 + 2 * i], 0) = dims[i]

\* a run in progress on the 2 x 3 float dataset with the command prog
C18_Witness ==
  /\ InFlight
  /\ input_data = FloatData
  /\ Words(full_command)
       = << <<"prog">>, <<"--api">>, <<"1">>, <<"--input">>, input_fd_name,
            <<"--decompressed">>, output_fd_name, <<"--type">>, <<"float">>,
            <<"--dim">>, <<"2">>, <<"--dim">>, <<"3">> >>

\* C20: once a plugin is cloned, no set_metrics_options, begin_compress or
\* end_decompress on the one changes the command, the format, the backend
\* settings, the captured dataset or the results of the other.
C20_CloneSharesNothing ==
  [][/\ cloned.exists => cloned' = cloned
     /\ stat_cloned.exists => stat_cloned' = stat_cloned]_vars

\* the plugin has been reconfigured, has captured and has run since it was
\* cloned
C20_Witness ==
  /\ cloned.exists
  /\ pc = "idle"
  /\ command # cloned.command
  /\ io_format # cloned.io_format
  /\ io_module.path # cloned.io_module.path
  /\ input_data # cloned.input_data
  /\ results # cloned.results


(***************************************************************************)
(* Properties of csv_io                                                    *)
(***************************************************************************)

\* C21: a write of a dataset that is not 2-dimensional, by a csv_io whose path
\* can be opened, returns invalid_dimensions and leaves every file as it
\* was: the file at the path is not created, truncated or changed
C21_RefusedWriteLeavesFile ==
  [][\A data \in CsvDatasets :
       (csv_write_of(data) /\ ofstream_ok(csv.path) /\ Len(data.dims) # 2)
         => (csv_rc' = invalid_dimensions /\ disk' = disk)]_vars

====
